---- MODULE Spec2Model ----
(***************************************************************************)
(* Model of src/index.js: the recurrence-date calculator                   *)
(* (generateFutureDates), the trip normalizer (processAndFilterTrips) and  *)
(* the fetch-and-intercept engine driven by main.                          *)
(*                                                                         *)
(* Five specifications share the module:                                   *)
(*   SpecDates  one call of generateFutureDates for a drawn current date   *)
(*   SpecTrips  one call of processAndFilterTrips on a drawn payload       *)
(*   SpecNames  the start of main for a route whose name is drawn          *)
(*   Spec       a run of main(): prompt, per-date fetch loop, timers       *)
(*   SpecFair   Spec, with the runtime settling what a call awaits         *)
(***************************************************************************)
EXTENDS Integers, Sequences, FiniteSets, TLC

\* null and NaN are records so that they compare with every object of the model
NULL == [null |-> TRUE]
NAN == [nan |-> TRUE]

(***************************************************************************)
(* Strings are sequences of one-character strings, so that formatting and  *)
(* parsing are computed and not assumed.                                   *)
(***************************************************************************)
DigitChars == <<"0", "1", "2", "3", "4", "5", "6", "7", "8", "9">>

DigitChar(n) == DigitChars[n + 1]

IsDigit(c) == \E i \in 1..10 : DigitChars[i] = c

DigitVal(c) == (CHOOSE i \in 1..10 : DigitChars[i] = c) - 1

\* Number.prototype.toString for a non-negative integer
RECURSIVE NumToString(_)
NumToString(n) == IF n < 10 THEN <<DigitChar(n)>>
                  ELSE NumToString(n \div 10) \o <<DigitChar(n % 10)>>

\* String.prototype.padStart(len, ch)
RECURSIVE padStart(_, _, _)
padStart(s, len, ch) == IF Len(s) >= len THEN s ELSE padStart(<<ch>> \o s, len, ch)

(***************************************************************************)
(* dayNameMapping, src/index.js:9-17                                       *)
(***************************************************************************)
dayNameMapping ==
    [d \in {"Domingo", "Segunda-feira", "Terça-feira", "Quarta-feira",
            "Quinta-feira", "Sexta-feira", "Sábado"} |->
        CASE d = "Domingo"       -> 0
          [] d = "Segunda-feira" -> 1
          [] d = "Terça-feira"   -> 2
          [] d = "Quarta-feira"  -> 3
          [] d = "Quinta-feira"  -> 4
          [] d = "Sexta-feira"   -> 5
          [] d = "Sábado"        -> 6]

hasDayName(name) == name \in DOMAIN dayNameMapping

(***************************************************************************)
(* The Date object, at day granularity.  A Date is its time value counted  *)
(* in local days since 1970-01-01; the accessors follow ECMAScript's       *)
(* DayFromYear / YearFromTime / MonthFromTime / DateFromTime / WeekDay /   *)
(* MakeDay, which is what getFullYear, getMonth, getDate, getDay and       *)
(* setDate compute.                                                        *)
(***************************************************************************)
DaysInYear(y) == IF y % 4 # 0 THEN 365
                 ELSE IF y % 100 # 0 THEN 366
                 ELSE IF y % 400 # 0 THEN 365 ELSE 366

DayFromYear(y) == 365 * (y - 1970) + ((y - 1969) \div 4)
                  - ((y - 1901) \div 100) + ((y - 1601) \div 400)

getFullYear(t) ==
    CHOOSE y \in (1970 + (t \div 366))..(1970 + (t \div 365)) :
        DayFromYear(y) <= t /\ t < DayFromYear(y + 1)

DayWithinYear(t) == t - DayFromYear(getFullYear(t))

InLeapYear(t) == IF DaysInYear(getFullYear(t)) = 366 THEN 1 ELSE 0

\* first day-within-year of month m (0-based), for leap = 0 or 1
MonthStart(m, leap) ==
    CASE m = 0  -> 0
      [] m = 1  -> 31
      [] m = 2  -> 59 + leap
      [] m = 3  -> 90 + leap
      [] m = 4  -> 120 + leap
      [] m = 5  -> 151 + leap
      [] m = 6  -> 181 + leap
      [] m = 7  -> 212 + leap
      [] m = 8  -> 243 + leap
      [] m = 9  -> 273 + leap
      [] m = 10 -> 304 + leap
      [] m = 11 -> 334 + leap
      [] m = 12 -> 365 + leap

getMonth(t) ==
    CHOOSE m \in 0..11 :
        /\ MonthStart(m, InLeapYear(t)) <= DayWithinYear(t)
        /\ DayWithinYear(t) < MonthStart(m + 1, InLeapYear(t))

getDate(t) == DayWithinYear(t) - MonthStart(getMonth(t), InLeapYear(t)) + 1

getDay(t) == (t + 4) % 7

MakeDay(year, month, date) ==
    LET ym == year + (month \div 12)
        mn == month % 12
        leap == IF DaysInYear(ym) = 366 THEN 1 ELSE 0
    IN  DayFromYear(ym) + MonthStart(mn, leap) + date - 1

\* Date.prototype.setDate(dt): same year and month, day-of-month dt,
\* overflowing into the following months
setDate(t, dt) == MakeDay(getFullYear(t), getMonth(t), dt)

\* new Date() for a clock that shows the civil date <<y, m, d>> (m is 1..12)
newDate(civil) == MakeDay(civil[1], civil[2] - 1, civil[3])

(***************************************************************************)
(* formatDateToString, src/index.js:24-29                                  *)
(***************************************************************************)
formatDateToString(date) ==
    LET year  == getFullYear(date)
        month == padStart(NumToString(getMonth(date) + 1), 2, "0")
        day   == padStart(NumToString(getDate(date)), 2, "0")
    IN  NumToString(year) \o <<"-">> \o month \o <<"-">> \o day

(***************************************************************************)
(* generateFutureDates, src/index.js:55-76.  now is the civil date both    *)
(* new Date() calls read.                                                  *)
(***************************************************************************)
RECURSIVE FutureDatesLoop(_, _, _, _)
FutureDatesLoop(i, count, nextTargetDate, futureDates) ==
    IF i < count
    THEN FutureDatesLoop(i + 1, count,
                         setDate(nextTargetDate, getDate(nextTargetDate) + 7),
                         Append(futureDates, formatDateToString(nextTargetDate)))
    ELSE futureDates

\* a calculator that never answers "today": the target weekday itself is
\* pushed to the following week
daysUntilTargetSkipsToday(targetDayNumber, currentDay) ==
    IF targetDayNumber = currentDay THEN 7
    ELSE (targetDayNumber - currentDay + 7) % 7

daysUntilTarget(targetDayNumber, currentDay) ==
    (targetDayNumber - currentDay + 7) % 7

generateFutureDates(now, targetDayName, count) ==
    IF ~hasDayName(targetDayName) THEN <<>>
    ELSE LET targetDayNumber == dayNameMapping[targetDayName]
             currentDate     == newDate(now)
             nextTargetDate  == setDate(newDate(now),
                                        getDate(currentDate)
                                        + daysUntilTarget(targetDayNumber,
                                                          getDay(currentDate)))
         IN  FutureDatesLoop(0, count, nextTargetDate, <<>>)

\* what the call writes to the console: an error line naming the argument
\* when it is not a key of dayNameMapping, src/index.js:56-57
invalidDayConsoleSilent(targetDayName) == <<>>

invalidDayConsole(targetDayName) ==
    IF ~hasDayName(targetDayName)
    THEN <<[level |-> "error", text |-> "Invalid target day name provided",
            arg |-> targetDayName]>>
    ELSE <<>>

(***************************************************************************)
(* Numbers with a fractional part are decimals m / 10^e, kept normalised   *)
(* (no trailing zero in the fraction), so that equal values are equal      *)
(* records.  parseFloat reads the longest decimal literal that prefixes    *)
(* the string: optional blanks, optional sign, digits, optional fraction.  *)
(***************************************************************************)
RECURSIVE Normalise(_, _)
Normalise(m, e) == IF e > 0 /\ m % 10 = 0 THEN Normalise(m \div 10, e - 1)
                   ELSE [m |-> m, e |-> e]

Num(n) == [m |-> n, e |-> 0]

Zero == Num(0)

RECURSIVE SkipBlanks(_, _)
SkipBlanks(s, i) == IF i <= Len(s) /\ s[i] = " " THEN SkipBlanks(s, i + 1) ELSE i

RECURSIVE DigitRun(_, _)
DigitRun(s, i) == IF i <= Len(s) /\ IsDigit(s[i]) THEN 1 + DigitRun(s, i + 1) ELSE 0

RECURSIVE DigitsValue(_, _, _, _)
DigitsValue(s, i, n, acc) ==
    IF n = 0 THEN acc ELSE DigitsValue(s, i + 1, n - 1, acc * 10 + DigitVal(s[i]))

\* parseFloat of a property value: an absent property reads as undefined,
\* whose string form is not a number
parseFloat(obj, field) ==
    IF field \notin DOMAIN obj THEN NAN
    ELSE LET s     == obj[field]
             b     == SkipBlanks(s, 1)
             neg   == b <= Len(s) /\ s[b] = "-"
             i     == IF b <= Len(s) /\ s[b] \in {"-", "+"} THEN b + 1 ELSE b
             nInt  == DigitRun(s, i)
             dot   == i + nInt <= Len(s) /\ s[i + nInt] = "."
             nFrac == IF dot THEN DigitRun(s, i + nInt + 1) ELSE 0
             ip    == DigitsValue(s, i, nInt, 0)
             all   == DigitsValue(s, i + nInt + 1, nFrac, ip)
             mag   == IF nFrac = 0 THEN ip ELSE all
         IN  IF nInt + nFrac = 0 THEN NAN
             ELSE Normalise(IF neg THEN 0 - mag ELSE mag, nFrac)

\* parseInt(s, 10): optional blanks, optional sign, then the longest run of
\* digits; NaN when there is no digit
parseInt(s) ==
    LET b    == SkipBlanks(s, 1)
        neg  == b <= Len(s) /\ s[b] = "-"
        i    == IF b <= Len(s) /\ s[b] \in {"-", "+"} THEN b + 1 ELSE b
        nInt == DigitRun(s, i)
        mag  == DigitsValue(s, i, nInt, 0)
    IN  IF nInt = 0 THEN NAN ELSE Num(IF neg THEN 0 - mag ELSE mag)

isNaN(x) == x = NAN

(***************************************************************************)
(* processAndFilterTrips, src/index.js:146-215.  A trip is a record; an    *)
(* absent property (passenger_types, total) is an absent field.            *)
(***************************************************************************)
\* Array.prototype.find, given the positions whose element passes the test:
\* the first of them, or 0 when there is none
find(matching) ==
    IF matching = {} THEN 0
    ELSE CHOOSE i \in matching : \A j \in matching : i <= j

Positions(arr) == 1..Len(arr)

hasPassengerTypes(trip) == "passenger_types" \in DOMAIN trip

\* a normalizer that keeps every service class
isConventionalAnyService(trip) == trip.service \in {"CONVENCIONAL", "EXECUTIVO"}

isConventional(trip) == trip.service = "CONVENCIONAL"

isGeneral(pt) == pt.type = "general"

\* a free-pass test that forgets the zero-total requirement
isFreePassAnyTotal(pt) == pt.type = "free_pass"

isFreePass(pt) == pt.type = "free_pass" /\ parseFloat(pt, "total") = Zero

isDisadvantagedYouth(pt) == pt.type = "disadvantaged_youth"

\* a half-fare test that looks for the full-discount entry
isDisadvantagedYouthHalfWrongType(pt) == pt.type = "disadvantaged_youth"

isDisadvantagedYouthHalf(pt) == pt.type = "disadvantaged_youth_half"

\* a general price that never looks at passenger_types
generalPriceFromPricingOnly(trip) == Num(trip.pricing.total)

generalPriceOf(trip) ==
    IF ~hasPassengerTypes(trip) THEN Num(trip.pricing.total)
    ELSE LET g == find({j \in Positions(trip.passenger_types) :
                                isGeneral(trip.passenger_types[j])})
         IN  IF g # 0 /\ "total" \in DOMAIN trip.passenger_types[g]
             THEN parseFloat(trip.passenger_types[g], "total")
             ELSE Num(trip.pricing.total)

freePassDetailsOf(trip) ==
    IF ~hasPassengerTypes(trip) THEN NULL
    ELSE LET f == find({j \in Positions(trip.passenger_types) :
                                isFreePass(trip.passenger_types[j])})
         IN  IF f = 0 THEN NULL
             ELSE [price |-> Zero,
                   availability |-> trip.passenger_types[f].availability,
                   type |-> "Gratuidade (Idoso/PCD)"]

disadvantagedYouthDetailsOf(trip) ==
    IF ~hasPassengerTypes(trip) THEN NULL
    ELSE LET y == find({j \in Positions(trip.passenger_types) :
                                isDisadvantagedYouth(trip.passenger_types[j])})
         IN  IF y = 0 THEN NULL
             ELSE [price |-> parseFloat(trip.passenger_types[y], "total"),
                   availability |-> trip.passenger_types[y].availability,
                   type |-> "Jovem Baixa Renda 100%"]

disadvantagedYouthHalfDetailsOf(trip) ==
    IF ~hasPassengerTypes(trip) THEN NULL
    ELSE LET h == find({j \in Positions(trip.passenger_types) :
                                isDisadvantagedYouthHalf(trip.passenger_types[j])})
         IN  IF h = 0 THEN NULL
             ELSE [price |-> parseFloat(trip.passenger_types[h], "total"),
                   availability |-> trip.passenger_types[h].availability,
                   type |-> "Jovem Baixa Renda 50%"]

canonicalTrip(searchDate, trip) ==
    [date |-> searchDate,
     serviceType |-> trip.service,
     departureTimestamp |-> trip.departure,
     arrivalTimestamp |-> trip.arrival,
     price |-> generalPriceOf(trip),
     freePassInfo |-> freePassDetailsOf(trip),
     disadvantagedYouthInfo |-> disadvantagedYouthDetailsOf(trip),
     disadvantagedYouthHalfInfo |-> disadvantagedYouthHalfDetailsOf(trip)]

RECURSIVE tripsForEach(_, _, _, _)
tripsForEach(searchDate, trips, i, conventionalTrips) ==
    IF i > Len(trips) THEN conventionalTrips
    ELSE tripsForEach(searchDate, trips, i + 1,
                      IF isConventional(trips[i])
                      THEN Append(conventionalTrips, canonicalTrip(searchDate, trips[i]))
                      ELSE conventionalTrips)

(***************************************************************************)
(* Values of any type.  Every value is a record: null and undefined are    *)
(* their own tags, a primitive or a function carries its typeof and its    *)
(* truthiness, an array standing alone is boxed as [array |-> elements],   *)
(* and any other record is an object, one field per property.  A property  *)
(* holding an array is a sequence-valued field; the property trips holding *)
(* anything else is the field tripsOther, because a field cannot be asked   *)
(* whether it is a sequence.                                               *)
(***************************************************************************)
UNDEFINED == [undefined |-> TRUE]

typeOf(v) == IF "undefined" \in DOMAIN v THEN "undefined"
             ELSE IF "typeof" \in DOMAIN v THEN v.typeof
             ELSE "object"

\* ToBoolean
truthy(v) == IF "undefined" \in DOMAIN v \/ "null" \in DOMAIN v THEN FALSE
             ELSE IF "typeof" \in DOMAIN v THEN v.truthy
             ELSE TRUE

\* a test that takes every value for an array
isArrayAnything(v) == TRUE

\* Array.isArray
isArray(v) == "array" \in DOMAIN v

\* jsonData.trips, for an object jsonData
tripsOf(data) == IF "trips" \in DOMAIN data THEN [array |-> data.trips]
                 ELSE IF "tripsOther" \in DOMAIN data THEN data.tripsOther
                 ELSE UNDEFINED

\* the two guards, src/index.js:147-154, let the payload through
passesGuards(data) ==
    /\ truthy(data) /\ typeOf(data) = "object"
    /\ truthy(tripsOf(data)) /\ isArray(tripsOf(data))

\* jsonData.trips.forEach on a value that has no forEach is a TypeError
processAndFilterTripsThrows(data) ==
    passesGuards(data) /\ "trips" \notin DOMAIN data

processAndFilterTrips(data) ==
    IF ~passesGuards(data) \/ processAndFilterTripsThrows(data) THEN <<>>
    ELSE tripsForEach(data.departs, data.trips, 1, <<>>)

(***************************************************************************)
(* Route names are sequences of tokens: "(", ")" and maximal runs of other *)
(* characters.  getDayOfWeekFromString, src/index.js:37-47, applies        *)
(* /\(([^)]+)\)$/ : the name ends with ")", and the group is what lies     *)
(* between the leftmost "(" that has no ")" after it and that final ")".   *)
(***************************************************************************)
NoDay == "null"

\* the pattern without its end anchor: the first group of the name counts,
\* wherever it stands
getDayOfWeekFromStringUnanchored(tripName) ==
    LET n      == Len(tripName)
        Groups == {i \in 1..(n - 2) :
                      /\ tripName[i] = "(" /\ tripName[i + 2] = ")"
                      /\ tripName[i + 1] \notin {"(", ")"}}
        first  == CHOOSE i \in Groups : \A k \in Groups : i <= k
    IN  IF Groups # {} /\ hasDayName(tripName[first + 1])
        THEN tripName[first + 1]
        ELSE NoDay

getDayOfWeekFromString(tripName) ==
    LET n      == Len(tripName)
        Opens  == {i \in 1..(n - 2) :
                      /\ tripName[i] = "("
                      /\ \A j \in (i + 1)..(n - 1) : tripName[j] # ")"}
        open   == CHOOSE i \in Opens : \A k \in Opens : i <= k
    IN  IF n >= 3 /\ tripName[n] = ")" /\ Opens # {}
        THEN IF open = n - 2 /\ hasDayName(tripName[n - 1])
             THEN tripName[n - 1]
             ELSE NoDay
        ELSE NoDay

\* tripOptionsConfig, src/index.js:298-303
tripOptionsConfig ==
    << [name |-> <<"São Paulo > Goiania ", "(", "Quinta-feira", ")">>,
        origin |-> "sao-paulo", destination |-> "goiania"],
       [name |-> <<"Goiania > Sao Luis ", "(", "Sábado", ")">>,
        origin |-> "goiania", destination |-> "sao-luis"],
       [name |-> <<"São Luis > Goiania ", "(", "Sábado", ")">>,
        origin |-> "sao-luis", destination |-> "goiania"],
       [name |-> <<"Goiania > São Paulo ", "(", "Quinta-feira", ")">>,
        origin |-> "goiania", destination |-> "sao-paulo"] >>

\* the table with its names edited so that no weekday can be read from
\* them: a label in lower case, an unrecognized token, no group, a group
\* that is not at the end
tripOptionsEdited ==
    << [name |-> <<"São Paulo > Goiania ", "(", "quinta-feira", ")">>,
        origin |-> "sao-paulo", destination |-> "goiania"],
       [name |-> <<"Goiania > Sao Luis ", "(", "Feriado", ")">>,
        origin |-> "goiania", destination |-> "sao-luis"],
       [name |-> <<"São Luis > Goiania">>,
        origin |-> "sao-luis", destination |-> "goiania"],
       [name |-> <<"Goiania ", "(", "Quinta-feira", ")", " > São Paulo">>,
        origin |-> "goiania", destination |-> "sao-paulo"] >>

RouteTables == {tripOptionsConfig, tripOptionsEdited}

\* the count main passes to generateFutureDates
DatesPerRoute == 4

\* the array main maps the table to, src/index.js:305-317, for the clock
\* reading now
tripSelectionsOf(table, now) ==
    [k \in 1..Len(table) |->
        LET config        == table[k]
            dayOfWeekName == getDayOfWeekFromString(config.name)
        IN  [name |-> config.name, origin |-> config.origin,
             destination |-> config.destination,
             dates |-> IF dayOfWeekName # NoDay
                       THEN generateFutureDates(now, dayOfWeekName, DatesPerRoute)
                       ELSE <<>>]]

(***************************************************************************)
(* State.                                                                  *)
(***************************************************************************)
VARIABLES
    \* generateFutureDates call
    today,             \* civil date <<y, m, d>> the clock shows
    targetDayName,     \* argument
    count,             \* argument
    dpc,               \* "call" | "done"
    futureDates,       \* returned array
    dateConsole,       \* console lines written by the call
    \* processAndFilterTrips call
    jsonData,          \* argument (the payload)
    tpc,               \* "build" | "done" | "threw"
    conventionalTrips, \* returned array
    \* a run of main()
    mpc,               \* main: "start" | "prompt" | "hung" | "loop" | "fetch" |
                       \*       "process" | "done" (the final line is logged)
    tripOptions,       \* the route table main is configured with
    tripSelections,    \* the table with each route's dates, once built
    answer,            \* the line typed at the prompt
    selectedTrip,      \* 0 (none) or the index of the chosen route
    fetchLog,          \* dateString of every fetch call made, in call order
    logged,            \* what main reported last: "none" | "promptError" |
                       \* "noSelection" | "noDates", and for the last finished
                       \* date "nodata" | "printed" | "error"
    fpc,               \* fetch: "idle" | "launch" | "newPage" | "setUserAgent" |
                       \*        "setViewport" | "goto" | "await" | "closing" | "exit"
    browser,           \* 0 (null) or the session of the running call
    session,           \* per call, its browser: "absent" | "open" | "closing"
    closeError,        \* browser.close() of the running call threw
    completion,        \* how the running call completes
    timer,             \* per call, responseTimeout: "unset" | "armed" | "cleared" | "fired"
    promise,           \* per call, jsonCapturePromise
    capturedJsonData,  \* per call: 0 (null) or the captured response
    decoding,          \* response.json() calls in flight
    nresp,             \* responses observed by the running call
    fetchConsole,      \* console lines written by the running call's outer catch
    firstMatch,        \* of the running call's responses with a matching URL:
                       \* the first observed and the first decoded that have
                       \* a trips array (0: none yet), and whether one whose
                       \* JSON body has no trips array was decoded
    unhandled,         \* jsonCapturePromise rejections that found no handler: the
                       \* call, and whether it had returned by then
    proc,              \* "running" | "crashed" | "exited"
    rejectionMode      \* the runtime's unhandled-rejection policy, once it has
                       \* shown: "unknown" | "throw" | "warn"

dateVars == <<today, targetDayName, count, dpc, futureDates, dateConsole>>
tripVars == <<jsonData, tpc, conventionalTrips>>
mainVars == <<mpc, tripOptions, tripSelections, answer, selectedTrip, fetchLog, logged, fpc, browser, session,
              closeError, completion, timer, promise, capturedJsonData, decoding, nresp,
              firstMatch, fetchConsole, unhandled, proc, rejectionMode>>
vars == <<dateVars, tripVars, mainVars>>

DatesIdle == /\ today = <<1970, 1, 1>>
             /\ targetDayName = "Domingo"
             /\ count = 0
             /\ dpc = "idle"
             /\ futureDates = <<>>
             /\ dateConsole = <<>>

TripsIdle == /\ jsonData = NULL
             /\ tpc = "idle"
             /\ conventionalTrips = <<>>

(***************************************************************************)
(* SpecDates: generateFutureDates(targetDayName, count) on a drawn day.    *)
(***************************************************************************)
FirstYear == 2024
NumYears == 1
MaxCount == 4

CivilDaysInMonth(y, m) ==
    IF m \in {4, 6, 9, 11} THEN 30
    ELSE IF m # 2 THEN 31
    ELSE IF (y % 4 = 0 /\ y % 100 # 0) \/ y % 400 = 0 THEN 29 ELSE 28

CivilDays == {c \in (FirstYear..(FirstYear + NumYears - 1)) \X (1..12) \X (1..31) :
                 c[3] <= CivilDaysInMonth(c[1], c[2])}

\* the seven labels, and arguments that are no key of dayNameMapping: another
\* word, a label in another case, the empty string
DayNameArgs == DOMAIN dayNameMapping \cup {"Feriado", "quinta-feira", ""}

DatesInit == /\ today \in CivilDays
             /\ targetDayName \in DayNameArgs
             /\ count \in 0..MaxCount
             /\ dpc = "call"
             /\ futureDates = <<>>
             /\ dateConsole = <<>>

GenerateFutureDates ==
    /\ dpc = "call"
    /\ dpc' = "done"
    /\ futureDates' = generateFutureDates(today, targetDayName, count)
    /\ dateConsole' = invalidDayConsole(targetDayName)
    /\ UNCHANGED <<today, targetDayName, count>>


(***************************************************************************)
(* SpecTrips: processAndFilterTrips(jsonData) on a drawn payload.  The     *)
(* payload is built trip by trip and entry by entry (the remote service's  *)
(* answer), then normalised.  A trip's departure is its position in the    *)
(* array and an entry's availability its position in passenger_types, so   *)
(* that every element is recognisable in the output.                       *)
(***************************************************************************)
MaxTrips == 2
MaxEntries == 2

Services == {"CONVENCIONAL", "EXECUTIVO"}

PassengerTypes == {"general", "free_pass", "disadvantaged_youth",
                   "disadvantaged_youth_half"}

TotalStrings == { <<"0", ".", "0", "0">>,
                  <<"1", "2", ".", "5", "0">> }

DepartsString == <<"2", "0", "2", "5", "-", "0", "1", "-", "0", "2">>

RECURSIVE SumEntries(_, _)
SumEntries(trips, i) ==
    IF i > Len(trips) THEN 0
    ELSE (IF hasPassengerTypes(trips[i]) THEN Len(trips[i].passenger_types) ELSE 0)
         + SumEntries(trips, i + 1)

\* payloads that are missing, are no object, or have no trips array
MalformedPayloads ==
    { NULL, UNDEFINED,
      [typeof |-> "number", truthy |-> FALSE],
      [typeof |-> "number", truthy |-> TRUE],
      [typeof |-> "string", truthy |-> FALSE],
      [typeof |-> "string", truthy |-> TRUE],
      [typeof |-> "boolean", truthy |-> TRUE],
      [typeof |-> "function", truthy |-> TRUE],
      [array |-> <<>>],
      [error |-> "not found"],
      [departs |-> DepartsString],
      [departs |-> DepartsString, tripsOther |-> NULL],
      [departs |-> DepartsString,
       tripsOther |-> [typeof |-> "string", truthy |-> FALSE]],
      [departs |-> DepartsString,
       tripsOther |-> [typeof |-> "string", truthy |-> TRUE]],
      [departs |-> DepartsString,
       tripsOther |-> [typeof |-> "number", truthy |-> TRUE]],
      [tripsOther |-> [length |-> 0]] }

TripsInit == /\ jsonData \in {[departs |-> DepartsString, trips |-> <<>>]}
                              \cup MalformedPayloads
             /\ tpc = "build"
             /\ conventionalTrips = <<>>

BaseTrip(service, n) ==
    [service |-> service, pricing |-> [total |-> 80],
     departure |-> n, arrival |-> n + 100]

\* the service's answer gains a trip, with or without a passenger_types array
AddTrip(service, withTypes) ==
    /\ tpc = "build"
    /\ "trips" \in DOMAIN jsonData
    /\ Len(jsonData.trips) < MaxTrips
    /\ LET n    == Len(jsonData.trips) + 1
           trip == IF withTypes
                   THEN BaseTrip(service, n) @@ [passenger_types |-> <<>>]
                   ELSE BaseTrip(service, n)
       IN  jsonData' = [jsonData EXCEPT !.trips = Append(@, trip)]
    /\ UNCHANGED <<tpc, conventionalTrips>>

\* the last trip gains a passenger-type entry, with or without a total
AddPassengerType(type, hasTotal, total) ==
    /\ tpc = "build"
    /\ "trips" \in DOMAIN jsonData
    /\ Len(jsonData.trips) > 0
    /\ hasPassengerTypes(jsonData.trips[Len(jsonData.trips)])
    /\ SumEntries(jsonData.trips, 1) < MaxEntries
    /\ LET n     == Len(jsonData.trips)
           k     == Len(jsonData.trips[n].passenger_types) + 1
           entry == IF hasTotal
                    THEN [type |-> type, total |-> total, availability |-> k]
                    ELSE [type |-> type, availability |-> k]
       IN  jsonData' = [jsonData EXCEPT !.trips[n].passenger_types = Append(@, entry)]
    /\ UNCHANGED <<tpc, conventionalTrips>>

ProcessAndFilterTrips ==
    /\ tpc = "build"
    /\ tpc' = IF processAndFilterTripsThrows(jsonData) THEN "threw" ELSE "done"
    /\ conventionalTrips' = processAndFilterTrips(jsonData)
    /\ UNCHANGED jsonData


(***************************************************************************)
(* Spec: a run of main(), src/index.js:297-352, with                       *)
(* fetchBusDataForDateWithPuppeteer, src/index.js:78-144, step by step at  *)
(* its awaits, and the callbacks it leaves behind (the response observer's *)
(* decodings, the 45 s timer).                                             *)
(*                                                                         *)
(* What a finished call leaves in the runtime is what is still referenced: *)
(* a browser whose close() has not settled, and an armed timer with the    *)
(* closure it holds (capturedJsonData, the promise's reject).  Everything  *)
(* else of a finished call is garbage and is reset.                        *)
(***************************************************************************)
MaxResponses == 2

NavigationTimeoutMs == 40000
CaptureTimeoutMs == 45000

\* the day the run takes place (a Tuesday)
MainToday == <<2024, 12, 24>>

\* lines typed at the prompt: the exit option, the four routes, numbers out
\* of range, a word, a number followed by a letter, nothing
Answers == { <<"0">>, <<"1">>, <<"2">>, <<"3">>, <<"4">>, <<"5">>, <<"-", "1">>,
             <<"a", "b", "c">>, <<"7", "a">>, <<>> }

Calls == 1..DatesPerRoute

Bodies == {"trips", "notrips", "nojson"}

NoCompletion == [kind |-> "none"]

NoPromise == [st |-> "none", val |-> 0]

NoMatch == [observed |-> 0, decoded |-> 0, malformed |-> FALSE]

cur == Len(fetchLog)

selectedDates ==
    IF selectedTrip = 0 THEN <<>> ELSE tripSelections[selectedTrip].dates

MainIdle == /\ mpc = "idle"
            /\ tripOptions = <<>>
            /\ tripSelections = <<>>
            /\ answer = <<>>
            /\ selectedTrip = 0
            /\ fetchLog = <<>>
            /\ logged = "none"
            /\ fpc = "idle"
            /\ browser = 0
            /\ session = [i \in Calls |-> "absent"]
            /\ closeError = FALSE
            /\ completion = NoCompletion
            /\ timer = [i \in Calls |-> "unset"]
            /\ promise = [i \in Calls |-> NoPromise]
            /\ capturedJsonData = [i \in Calls |-> 0]
            /\ decoding = {}
            /\ nresp = 0
            /\ firstMatch = NoMatch
            /\ fetchConsole = <<>>
            /\ unhandled = {}
            /\ proc = "idle"
            /\ rejectionMode = "unknown"

\* main is entered: nothing is built, asked, fetched or logged yet
MainStart ==
            /\ mpc = "start"
            /\ tripSelections = <<>>
            /\ answer = <<>>
            /\ selectedTrip = 0
            /\ fetchLog = <<>>
            /\ logged = "none"
            /\ fpc = "idle"
            /\ browser = 0
            /\ session = [i \in Calls |-> "absent"]
            /\ closeError = FALSE
            /\ completion = NoCompletion
            /\ timer = [i \in Calls |-> "unset"]
            /\ promise = [i \in Calls |-> NoPromise]
            /\ capturedJsonData = [i \in Calls |-> 0]
            /\ decoding = {}
            /\ nresp = 0
            /\ firstMatch = NoMatch
            /\ fetchConsole = <<>>
            /\ unhandled = {}
            /\ proc = "running"
            /\ rejectionMode = "unknown"

MainInit == tripOptions \in RouteTables /\ MainStart

----------------------------------------------------------------------------
(* promptUserForTripSelection, src/index.js:256-281, and main's use of it *)

\* the table is mapped to tripSelections, src/index.js:305-317, and the
\* prompt is shown
BuildTripSelections ==
    /\ proc = "running" /\ mpc = "start"
    /\ tripSelections' = tripSelectionsOf(tripOptions, MainToday)
    /\ mpc' = "prompt"
    /\ UNCHANGED <<answer, firstMatch, fetchConsole, selectedTrip, fetchLog, logged, fpc, browser, session,
                   closeError, completion, timer, promise, capturedJsonData,
                   decoding, nresp, unhandled, proc, rejectionMode>>

\* the line a is typed and parseInt(a) is NaN: the promise rejects, main's
\* catch logs the error and its finally block the final line
PromptNotANumber(a) ==
    /\ proc = "running" /\ mpc = "prompt"
    /\ isNaN(parseInt(a))
    /\ answer' = a
    /\ mpc' = "done"
    /\ logged' = "promptError"
    /\ UNCHANGED <<tripSelections, firstMatch, fetchConsole, selectedTrip, fetchLog, fpc, browser, session,
                   closeError, completion, timer, promise, capturedJsonData,
                   decoding, nresp, unhandled, proc, rejectionMode>>

\* a test that finds dates in every route
hasNoDatesNever(trip) == FALSE

\* the test of src/index.js:325
hasNoDates(trip) == Len(trip.dates) = 0

\* the line a is typed and parseInt(a) is a number: 0 resolves with null, a
\* route's number with the route, and any other number leaves the promise
\* pending.  main logs that nothing was selected (line 345) or that the
\* selected route has no dates (line 326), or enters the loop.
PromptChoice(a) ==
    /\ proc = "running" /\ mpc = "prompt"
    /\ ~isNaN(parseInt(a))
    /\ answer' = a
    /\ LET choice == parseInt(a).m
       IN  IF choice = 0
           THEN mpc' = "done" /\ selectedTrip' = 0 /\ logged' = "noSelection"
           ELSE IF choice > 0 /\ choice <= Len(tripSelections)
           THEN /\ selectedTrip' = choice
                /\ IF hasNoDates(tripSelections[choice])
                   THEN mpc' = "done" /\ logged' = "noDates"
                   ELSE mpc' = "loop" /\ logged' = logged
           ELSE mpc' = "hung" /\ selectedTrip' = 0 /\ logged' = logged
    /\ UNCHANGED <<tripSelections, firstMatch, fetchConsole, fetchLog, fpc, browser, session, closeError,
                   completion, timer, promise, capturedJsonData, decoding,
                   nresp, unhandled, proc, rejectionMode>>

----------------------------------------------------------------------------
(* the for-loop of main, src/index.js:329-342 *)

\* next iteration: fetchBusDataForDateWithPuppeteer(dateStr, ...) is called
FetchCall ==
    /\ proc = "running" /\ mpc = "loop"
    /\ Len(fetchLog) < Len(selectedDates)
    /\ fetchLog' = Append(fetchLog, selectedDates[Len(fetchLog) + 1])
    /\ mpc' = "fetch"
    /\ fpc' = "launch"
    /\ UNCHANGED <<tripSelections, answer, firstMatch, fetchConsole,
                   selectedTrip, logged, browser, session, closeError,
                   completion, timer, promise, capturedJsonData, decoding,
                   nresp, unhandled, proc, rejectionMode>>

\* the date list is exhausted
LoopEnd ==
    /\ proc = "running" /\ mpc = "loop"
    /\ Len(fetchLog) >= Len(selectedDates)
    /\ mpc' = "done"
    /\ UNCHANGED <<tripSelections, answer, firstMatch, fetchConsole,
                   selectedTrip, fetchLog, logged, fpc, browser, session,
                   closeError, completion, timer, promise, capturedJsonData,
                   decoding, nresp, unhandled, proc, rejectionMode>>

----------------------------------------------------------------------------
(* fetchBusDataForDateWithPuppeteer, src/index.js:78-144 *)

\* an outer catch that rethrows
catchCompletionRethrows == [kind |-> "throw"]

\* the outer catch, src/index.js:132-134: logs and returns null
catchCompletion == [kind |-> "return", val |-> NULL]

\* a catch around browser.close() that returns null
closeCatchCompletionReturnsNull(c) == [kind |-> "return", val |-> NULL]

\* the catch around browser.close(), src/index.js:139-141: logs; the
\* completion of the try/catch blocks stands
closeCatchCompletion(c) == c

\* a finally block that never closes
ShouldCloseNever(b) == FALSE

\* the finally block's test, src/index.js:136
ShouldClose(b) == b # 0

\* a close that is started and not awaited
closeNotAwaited == FALSE

\* src/index.js:138 awaits browser.close()
awaitsClose == TRUE

\* the try or catch block completed with c: the finally block starts
EnterFinally(c) ==
    /\ completion' = c
    /\ IF ShouldClose(browser)
       THEN /\ session' = [session EXCEPT ![browser] = "closing"]
            /\ fpc' = IF awaitsClose THEN "closing" ELSE "exit"
       ELSE /\ session' = session
            /\ fpc' = "exit"

\* what the awaited operations reject with: errors of the browser library,
\* and the Error the capture timer builds, src/index.js:103, whose message
\* names the date and the route
launchError == [text |-> "launch failed"]

pageError == [text |-> "page operation failed"]

navigationError == [text |-> "navigation failed"]

timeoutError(dateString, originCity, destinationCity) ==
    [text |-> "Timeout: Did not capture the target JSON response",
     date |-> dateString, origin |-> originCity, destination |-> destinationCity]

\* the line the outer catch writes, src/index.js:133: it names the date and
\* does not use the error it caught
catchLine(error, dateString) ==
    [level |-> "error", text |-> "Não foi possível procurar frotas no dia",
     date |-> dateString]

\* the outer catch block, src/index.js:132-134, entered with error
Catch(error) ==
    /\ fetchConsole' = Append(fetchConsole, catchLine(error, fetchLog[cur]))
    /\ EnterFinally(catchCompletion)

\* await puppeteer.launch(...)
Launch(ok) ==
    /\ proc = "running" /\ fpc = "launch"
    /\ IF ok
       THEN /\ browser' = cur
            /\ session' = [session EXCEPT ![cur] = "open"]
            /\ fpc' = "newPage"
            /\ completion' = completion
            /\ fetchConsole' = fetchConsole
       ELSE /\ browser' = browser
            /\ Catch(launchError)
    /\ UNCHANGED <<tripSelections, answer, firstMatch,
                   mpc, selectedTrip, fetchLog, logged, closeError, timer,
                   promise, capturedJsonData, decoding, nresp, unhandled, proc,
                   rejectionMode>>

\* await browser.newPage(), page.setUserAgent(...)
PageSetup(step, next, ok) ==
    /\ proc = "running" /\ fpc = step
    /\ IF ok
       THEN fpc' = next /\ UNCHANGED <<session, completion, fetchConsole>>
       ELSE Catch(pageError)
    /\ UNCHANGED <<tripSelections, answer, firstMatch,
                   mpc, selectedTrip, fetchLog, logged, browser, closeError,
                   timer, promise, capturedJsonData, decoding, nresp, unhandled,
                   proc, rejectionMode>>

\* await page.setViewport(...); then, with no await in between, the capture
\* promise is built (timer armed, observer registered) and page.goto starts
SetViewport(ok) ==
    /\ proc = "running" /\ fpc = "setViewport"
    /\ IF ok
       THEN /\ fpc' = "goto"
            /\ timer' = [timer EXCEPT ![cur] = "armed"]
            /\ promise' = [promise EXCEPT ![cur] = [st |-> "pending", val |-> 0]]
            /\ UNCHANGED <<session, completion, fetchConsole>>
       ELSE /\ Catch(pageError)
            /\ UNCHANGED <<timer, promise>>
    /\ UNCHANGED <<tripSelections, answer, firstMatch,
                   mpc, selectedTrip, fetchLog, logged, browser, closeError,
                   capturedJsonData, decoding, nresp, unhandled, proc,
                   rejectionMode>>

\* await page.goto(...) settles; on success the call goes on to
\* await jsonCapturePromise
GotoSettle(ok) ==
    /\ proc = "running" /\ fpc = "goto"
    /\ IF ok
       THEN fpc' = "await" /\ UNCHANGED <<session, completion, fetchConsole>>
       ELSE Catch(navigationError)
    /\ UNCHANGED <<tripSelections, answer, firstMatch,
                   mpc, selectedTrip, fetchLog, logged, browser, closeError,
                   timer, promise, capturedJsonData, decoding, nresp, unhandled,
                   proc, rejectionMode>>

\* return await jsonCapturePromise: the promise has settled
AwaitCapture ==
    /\ proc = "running" /\ fpc = "await"
    /\ promise[cur].st \in {"resolved", "rejected"}
    /\ IF promise[cur].st = "resolved"
       THEN /\ EnterFinally([kind |-> "return",
                              val |-> [payload |-> promise[cur].val]])
            /\ fetchConsole' = fetchConsole
       ELSE Catch(timeoutError(fetchLog[cur], tripSelections[selectedTrip].origin,
                               tripSelections[selectedTrip].destination))
    /\ UNCHANGED <<tripSelections, answer, firstMatch,
                   mpc, selectedTrip, fetchLog, logged, browser, closeError,
                   timer, promise, capturedJsonData, decoding, nresp, unhandled,
                   proc, rejectionMode>>

\* page.on('response'): a response is observed; one whose URL starts with
\* the API prefix and contains ?type=bus starts response.json()
OnResponse(urlMatches, body) ==
    /\ proc = "running" /\ fpc \in {"goto", "await"}
    /\ nresp < MaxResponses
    /\ nresp' = nresp + 1
    /\ decoding' = IF urlMatches
                   THEN decoding \cup {[id |-> nresp + 1, body |-> body]}
                   ELSE decoding
    /\ firstMatch' = IF urlMatches /\ body = "trips" /\ firstMatch.observed = 0
                     THEN [firstMatch EXCEPT !.observed = nresp + 1]
                     ELSE firstMatch
    /\ UNCHANGED <<tripSelections, answer, fetchConsole,
                   mpc, selectedTrip, fetchLog, logged, fpc, browser, session,
                   closeError, completion, timer, promise, capturedJsonData,
                   unhandled, proc, rejectionMode>>

\* a resolve that replaces the value of a settled promise
resolveLastWins(p, v) == [st |-> "resolved", val |-> v]

\* resolve(jsonData), src/index.js:115: settles a pending promise and is
\* without effect on a settled one
resolve(p, v) == IF p.st = "pending" THEN [st |-> "resolved", val |-> v] ELSE p

\* response.json() settles for response r: a body with a trips array is
\* captured, clears the timer and resolves the promise; a body that is not
\* JSON throws into the empty catch; any other body is ignored
DecodeSettle(r) ==
    /\ proc = "running" /\ fpc \in {"goto", "await", "closing"}
    /\ r \in decoding
    /\ decoding' = decoding \ {r}
    /\ IF r.body = "trips"
       THEN /\ capturedJsonData' = [capturedJsonData EXCEPT ![cur] = r.id]
            /\ timer' = [timer EXCEPT ![cur] = IF @ = "armed" THEN "cleared" ELSE @]
            /\ promise' = [promise EXCEPT ![cur] = resolve(@, r.id)]
            /\ firstMatch' = IF firstMatch.decoded = 0
                             THEN [firstMatch EXCEPT !.decoded = r.id]
                             ELSE firstMatch
       ELSE /\ firstMatch' = IF r.body = "notrips"
                             THEN [firstMatch EXCEPT !.malformed = TRUE]
                             ELSE firstMatch
            /\ UNCHANGED <<capturedJsonData, timer, promise>>
    /\ UNCHANGED <<tripSelections, answer, fetchConsole,
                   mpc, selectedTrip, fetchLog, logged, fpc, browser, session,
                   closeError, completion, nresp, unhandled, proc, rejectionMode>>

\* the promise of call i has a handler: the call is at its await
Awaited(i) == i = cur /\ fpc = "await"

\* call i is still running
Running(i) == i = cur /\ fpc # "idle"

\* the 45 s timer of call i fires.  It was armed right before page.goto,
\* which settles within 40 s, and timers of equal delay fire in arming order.
\* A rejection nobody handles is reported by the runtime, which then either
\* warns or terminates the process, by its policy mode.
TimerFire(i) ==
    /\ proc = "running" /\ timer[i] = "armed"
    /\ (i = cur /\ fpc = "goto") => CaptureTimeoutMs <= NavigationTimeoutMs
    /\ \A j \in Calls : j < i => timer[j] # "armed"
    /\ timer' = [timer EXCEPT ![i] = IF Running(i) THEN "fired" ELSE "unset"]
    /\ IF capturedJsonData[i] = 0 /\ promise[i].st = "pending"
       THEN /\ promise' = [promise EXCEPT ![i] =
                              IF Running(i) THEN [st |-> "rejected", val |-> 0]
                              ELSE NoPromise]
            /\ IF Awaited(i)
               THEN UNCHANGED <<unhandled, proc, rejectionMode>>
               ELSE /\ unhandled' = unhandled \cup {[call |-> i, returned |-> ~Running(i)]}
                    /\ \E mode \in {"throw", "warn"} :
                          /\ rejectionMode \in {"unknown", mode}
                          /\ rejectionMode' = mode
                          /\ proc' = IF mode = "throw" THEN "crashed" ELSE proc
       ELSE UNCHANGED <<promise, unhandled, proc, rejectionMode>>
    /\ UNCHANGED <<tripSelections, answer, firstMatch, fetchConsole,
                   mpc, selectedTrip, fetchLog, logged, fpc, browser, session,
                   closeError, completion, capturedJsonData, decoding, nresp>>

\* browser.close() of session i settles; a failure is logged and swallowed.
\* Decodings still in flight die with the browser (into the empty catch).
CloseSettle(i, ok) ==
    /\ proc = "running" /\ session[i] = "closing"
    /\ session' = [session EXCEPT ![i] = "absent"]
    /\ IF i = cur /\ fpc = "closing"
       THEN /\ fpc' = "exit"
            /\ completion' = IF ok THEN completion ELSE closeCatchCompletion(completion)
            /\ closeError' = ~ok
            /\ decoding' = {}
       ELSE UNCHANGED <<fpc, completion, closeError, decoding>>
    /\ UNCHANGED <<tripSelections, answer, firstMatch, fetchConsole,
                   mpc, selectedTrip, fetchLog, logged, browser, timer,
                   promise, capturedJsonData, nresp, unhandled, proc,
                   rejectionMode>>

\* the call completes and main goes on, src/index.js:331-341: a payload is
\* handed to the normalizer, null is logged, an exception is caught and logged
FetchReturn ==
    /\ proc = "running" /\ mpc = "fetch" /\ fpc = "exit"
    /\ fpc' = "idle"
    /\ browser' = 0
    /\ completion' = NoCompletion
    /\ closeError' = FALSE
    /\ decoding' = {}
    /\ nresp' = 0
    /\ firstMatch' = NoMatch
    /\ fetchConsole' = <<>>
    /\ IF timer[cur] = "armed"
       THEN UNCHANGED <<timer, promise, capturedJsonData>>
       ELSE /\ timer' = [timer EXCEPT ![cur] = "unset"]
            /\ promise' = [promise EXCEPT ![cur] = NoPromise]
            /\ capturedJsonData' = [capturedJsonData EXCEPT ![cur] = 0]
    /\ IF completion.kind = "return"
       THEN IF completion.val # NULL
            THEN mpc' = "process" /\ logged' = logged
            ELSE mpc' = "loop" /\ logged' = "nodata"
       ELSE mpc' = "loop" /\ logged' = "error"
    /\ UNCHANGED <<tripSelections, answer,
                   selectedTrip, fetchLog, session, unhandled, proc,
                   rejectionMode>>

\* processAndFilterTrips and printTripDetails run on the payload; whatever
\* they throw is caught by the per-date catch
ProcessAndShow(ok) ==
    /\ proc = "running" /\ mpc = "process"
    /\ mpc' = "loop"
    /\ logged' = IF ok THEN "printed" ELSE "error"
    /\ UNCHANGED <<tripSelections, answer, firstMatch, fetchConsole,
                   selectedTrip, fetchLog, fpc, browser, session, closeError,
                   completion, timer, promise, capturedJsonData, decoding,
                   nresp, unhandled, proc, rejectionMode>>

\* nothing is left to run: the process exits
ProcessExit ==
    /\ proc = "running" /\ mpc \in {"done", "hung"}
    /\ \A i \in Calls : timer[i] # "armed" /\ session[i] # "closing"
    /\ proc' = "exited"
    /\ UNCHANGED <<tripSelections, answer, firstMatch, fetchConsole,
                   mpc, selectedTrip, fetchLog, logged, fpc, browser, session,
                   closeError, completion, timer, promise, capturedJsonData,
                   decoding, nresp, unhandled, rejectionMode>>

----------------------------------------------------------------------------
Init == MainInit /\ DatesIdle /\ TripsIdle

\* a run of main leaves the variables of the two single calls alone, and
\* its route table as configured
MainFrame == UNCHANGED <<dateVars, tripVars, tripOptions>>

Next ==
    \/ BuildTripSelections /\ MainFrame
    \/ \E a \in Answers : PromptNotANumber(a) /\ MainFrame
    \/ \E a \in Answers : PromptChoice(a) /\ MainFrame
    \/ FetchCall /\ MainFrame
    \/ LoopEnd /\ MainFrame
    \/ \E ok \in BOOLEAN : Launch(ok) /\ MainFrame
    \/ \E ok \in BOOLEAN : PageSetup("newPage", "setUserAgent", ok) /\ MainFrame
    \/ \E ok \in BOOLEAN : PageSetup("setUserAgent", "setViewport", ok) /\ MainFrame
    \/ \E ok \in BOOLEAN : SetViewport(ok) /\ MainFrame
    \/ \E ok \in BOOLEAN : GotoSettle(ok) /\ MainFrame
    \/ AwaitCapture /\ MainFrame
    \/ \E body \in Bodies : OnResponse(TRUE, body) /\ MainFrame
    \/ OnResponse(FALSE, "nojson") /\ MainFrame
    \/ \E r \in decoding : DecodeSettle(r) /\ MainFrame
    \/ \E i \in Calls : TimerFire(i) /\ MainFrame
    \/ \E i \in Calls, ok \in BOOLEAN : CloseSettle(i, ok) /\ MainFrame
    \/ FetchReturn /\ MainFrame
    \/ \E ok \in BOOLEAN : ProcessAndShow(ok) /\ MainFrame
    \/ ProcessExit /\ MainFrame

Spec == Init /\ [][Next]_vars

\* what the runtime does by itself once a call is under way: every awaited
\* operation (launch, page setup, navigation, body decoding, close) settles,
\* an armed timer fires, and a continuation whose promise has settled runs
FetchStep ==
    \/ \E ok \in BOOLEAN : Launch(ok) /\ MainFrame
    \/ \E ok \in BOOLEAN : PageSetup("newPage", "setUserAgent", ok) /\ MainFrame
    \/ \E ok \in BOOLEAN : PageSetup("setUserAgent", "setViewport", ok) /\ MainFrame
    \/ \E ok \in BOOLEAN : SetViewport(ok) /\ MainFrame
    \/ \E ok \in BOOLEAN : GotoSettle(ok) /\ MainFrame
    \/ AwaitCapture /\ MainFrame
    \/ \E r \in decoding : DecodeSettle(r) /\ MainFrame
    \/ \E i \in Calls : TimerFire(i) /\ MainFrame
    \/ \E i \in Calls, ok \in BOOLEAN : CloseSettle(i, ok) /\ MainFrame
    \/ FetchReturn /\ MainFrame

SpecFair == Init /\ [][Next]_vars /\ WF_vars(FetchStep)

DatesNext == GenerateFutureDates /\ UNCHANGED <<tripVars, mainVars>>

InitDates == DatesInit /\ TripsIdle /\ MainIdle

SpecDates == InitDates /\ [][DatesNext]_vars

(***************************************************************************)
(* SpecNames: the start of main, up to the answer to the prompt, for a     *)
(* table of one route whose name is drawn.  A name is a sequence of tokens *)
(* in which two runs of text are never adjacent.                           *)
(***************************************************************************)
MaxNameLen == 4

NameTokens == {"(", ")", "Sábado", "Feriado", "Rio "}

IsText(tok) == tok \notin {"(", ")"}

Names ==
    {name \in UNION {[1..n -> NameTokens] : n \in 0..MaxNameLen} :
        \A i \in 1..(Len(name) - 1) : ~(IsText(name[i]) /\ IsText(name[i + 1]))}

NameTables == {<<[name |-> name, origin |-> "rio", destination |-> "goiania"]>> :
                  name \in Names}

NamesInit == tripOptions \in NameTables /\ MainStart

InitNames == NamesInit /\ DatesIdle /\ TripsIdle

NamesNext ==
    \/ BuildTripSelections /\ MainFrame
    \/ \E a \in Answers : PromptNotANumber(a) /\ MainFrame
    \/ \E a \in Answers : PromptChoice(a) /\ MainFrame

SpecNames == InitNames /\ [][NamesNext]_vars

TripsFrame == UNCHANGED <<dateVars, mainVars>>

TripsNext ==
    \/ \E service \in Services, withTypes \in BOOLEAN :
          AddTrip(service, withTypes) /\ TripsFrame
    \/ \E type \in PassengerTypes, total \in TotalStrings :
          AddPassengerType(type, TRUE, total) /\ TripsFrame
    \/ \E type \in PassengerTypes : AddPassengerType(type, FALSE, <<>>) /\ TripsFrame
    \/ ProcessAndFilterTrips /\ TripsFrame

InitTrips == TripsInit /\ DatesIdle /\ MainIdle

SpecTrips == InitTrips /\ [][TripsNext]_vars

(***************************************************************************)
(* Properties of the fetch engine and of main's loop (Spec).               *)
(***************************************************************************)

\* C1: fetchBusDataForDateWithPuppeteer never raises to its caller: whatever
\* launch, page setup, navigation, capture and close did, the call completes
\* by returning, and what it returns is null or the payload the capture
\* promise resolved with.
C1_FetchNeverRaises ==
    fpc = "exit" =>
        /\ completion.kind = "return"
        /\ \/ completion.val = NULL
           \/ /\ promise[cur].st = "resolved"
              /\ capturedJsonData[cur] # 0
              /\ completion.val = [payload |-> promise[cur].val]

\* a call that timed out on capture, whose close then threw, returns null
C1_Witness ==
    /\ fpc = "exit" /\ closeError
    /\ timer[cur] = "fired" /\ promise[cur].st = "rejected"
    /\ completion = [kind |-> "return", val |-> NULL]

\* C2: when the call is about to return and a browser was launched, its
\* close() has been invoked, on every exit path.
C2_CloseInvoked ==
    (fpc = "exit" /\ browser # 0) => session[browser] # "open"

\* the exit path of an exception during page setup: the browser was launched,
\* the capture promise was never built
C2_Witness ==
    /\ fpc = "exit" /\ browser # 0
    /\ promise[cur].st = "none"
    /\ session[browser] = "absent"

\* the run of main is over: it reached its end or the process is gone
RunEnded == mpc = "done" \/ proc \in {"crashed", "exited"}

\* C3: for a selected route with a non-empty date list, the dates are fetched
\* once each and in list order, and when the run is over every date of the
\* list has been fetched, whatever happened to the earlier dates.
C3_EveryDateFetched ==
    (selectedTrip # 0 /\ Len(selectedDates) > 0) =>
        /\ Len(fetchLog) <= Len(selectedDates)
        /\ fetchLog = SubSeq(selectedDates, 1, Len(fetchLog))
        /\ RunEnded => fetchLog = selectedDates

\* C4: once a call has returned, nothing it started fails later: its capture
\* promise is never rejected without a handler.
C4_NothingFailsAfterReturn ==
    \A u \in unhandled : ~u.returned

\* C5: at most one browser session is launched and not yet through its
\* awaited close.
C5_AtMostOneSession ==
    Cardinality({i \in Calls : session[i] \in {"open", "closing"}}) <= 1

\* the second date's browser is open, after the first date launched one
\* (its timer is still armed) and had it closed
C5_Witness ==
    /\ cur = 2 /\ session[2] = "open"
    /\ timer[1] = "armed" /\ session[1] = "absent"

(***************************************************************************)
(* Properties of generateFutureDates (SpecDates), stated on the calendar   *)
(* itself: the day after a day, and the weekday of a day by Zeller's       *)
(* congruence.                                                             *)
(***************************************************************************)
CivilNext(c) ==
    IF c[3] < CivilDaysInMonth(c[1], c[2]) THEN <<c[1], c[2], c[3] + 1>>
    ELSE IF c[2] < 12 THEN <<c[1], c[2] + 1, 1>>
    ELSE <<c[1] + 1, 1, 1>>

RECURSIVE CivilPlus(_, _)
CivilPlus(c, k) == IF k = 0 THEN c ELSE CivilPlus(CivilNext(c), k - 1)

\* 0 = Sunday .. 6 = Saturday
CivilWeekday(c) ==
    LET y == IF c[2] < 3 THEN c[1] - 1 ELSE c[1]
        m == IF c[2] < 3 THEN c[2] + 12 ELSE c[2]
        h == (c[3] + ((13 * (m + 1)) \div 5) + (y % 100) + ((y % 100) \div 4)
              + ((y \div 100) \div 4) + 5 * (y \div 100)) % 7
    IN  (h + 6) % 7

IsDateString(s) ==
    /\ Len(s) = 10
    /\ s[5] = "-" /\ s[8] = "-"
    /\ \A i \in {1, 2, 3, 4, 6, 7, 9, 10} : IsDigit(s[i])

CivilOfString(s) ==
    << 1000 * DigitVal(s[1]) + 100 * DigitVal(s[2]) + 10 * DigitVal(s[3]) + DigitVal(s[4]),
       10 * DigitVal(s[6]) + DigitVal(s[7]),
       10 * DigitVal(s[9]) + DigitVal(s[10]) >>

\* C6: for a recognized weekday W and a count N, generateFutureDates returns
\* N dates; the first is today + ((ordinal(W) - today's weekday + 7) mod 7)
\* days, which is today when today is a W; each next one is 7 days later;
\* all fall on weekday W.
C6_FutureDates ==
    (dpc = "done" /\ hasDayName(targetDayName)) =>
        LET W      == dayNameMapping[targetDayName]
            offset == (W - CivilWeekday(today) + 7) % 7
        IN  /\ Len(futureDates) = count
            /\ \A i \in 1..Len(futureDates) :
                  /\ IsDateString(futureDates[i])
                  /\ CivilOfString(futureDates[i])
                        = CivilPlus(today, offset + 7 * (i - 1))
                  /\ CivilWeekday(CivilOfString(futureDates[i])) = W
            /\ (CivilWeekday(today) = W /\ count > 0)
                  => CivilOfString(futureDates[1]) = today

\* four Thursdays asked on a Tuesday at the end of December: the dates run
\* into the next year
C6_Witness ==
    /\ dpc = "done" /\ targetDayName = "Quinta-feira" /\ count = 4
    /\ CivilWeekday(today) = 2 /\ today[2] = 12 /\ today[3] >= 25
    /\ Len(futureDates) = 4
    /\ CivilOfString(futureDates[1]) = CivilPlus(today, 2)
    /\ CivilOfString(futureDates[4])[1] = today[1] + 1

\* C11: for a weekday argument that is none of the seven labels, and any
\* count, generateFutureDates completes by returning (it has no other way to
\* complete), what it returns is the empty list, and it has written one error
\* line naming the argument; for a recognized label it writes nothing.
C11_InvalidDayEmptyAndLogged ==
    /\ dpc \in {"idle", "call", "done"}
    /\ (dpc = "done" /\ ~hasDayName(targetDayName)) =>
          /\ futureDates = <<>>
          /\ Len(dateConsole) = 1
          /\ dateConsole[1].level = "error"
          /\ dateConsole[1].arg = targetDayName
    /\ (dpc = "done" /\ hasDayName(targetDayName)) => dateConsole = <<>>

\* four dates asked for a label written in lower case
C11_Witness ==
    /\ dpc = "done" /\ targetDayName = "quinta-feira" /\ count = 4
    /\ futureDates = <<>>
    /\ dateConsole # <<>>

(***************************************************************************)
(* Properties of processAndFilterTrips (SpecTrips).  A canonical trip's    *)
(* departureTimestamp is the position of its source trip.                  *)
(***************************************************************************)
SourceTrip(r) == jsonData.trips[r.departureTimestamp]

EntriesOf(trip) == IF hasPassengerTypes(trip) THEN trip.passenger_types ELSE <<>>

HasEntryOfType(trip, type) ==
    \E j \in 1..Len(EntriesOf(trip)) : EntriesOf(trip)[j].type = type

RECURSIVE ConventionalPositions(_, _)
ConventionalPositions(trips, i) ==
    IF i > Len(trips) THEN <<>>
    ELSE (IF trips[i].service = "CONVENCIONAL" THEN <<i>> ELSE <<>>)
         \o ConventionalPositions(trips, i + 1)

\* C7: the output has one record per source trip whose service is
\* "CONVENCIONAL", in source order, and nothing of any other trip.
C7_OnlyConventionalInOrder ==
    (tpc = "done" /\ "trips" \in DOMAIN jsonData) =>
        LET conv == ConventionalPositions(jsonData.trips, 1)
        IN  /\ Len(conventionalTrips) = Len(conv)
            /\ \A k \in 1..Len(conventionalTrips) :
                  /\ conventionalTrips[k].departureTimestamp = conv[k]
                  /\ conventionalTrips[k].arrivalTimestamp = jsonData.trips[conv[k]].arrival
                  /\ conventionalTrips[k].serviceType = "CONVENCIONAL"
                  /\ conventionalTrips[k].date = jsonData.departs

\* a trip of another service followed by a conventional trip: the output
\* is the second trip alone
C7_Witness ==
    /\ tpc = "done" /\ "trips" \in DOMAIN jsonData
    /\ Len(jsonData.trips) = 2
    /\ jsonData.trips[1].service = "EXECUTIVO"
    /\ jsonData.trips[2].service = "CONVENCIONAL"
    /\ Len(conventionalTrips) = 1
    /\ conventionalTrips[1].departureTimestamp = 2

\* C8: a normalized trip has a free-pass sub-record only if its source trip
\* has a free_pass entry whose total parses to 0.0; a trip whose free_pass
\* entries all have another total has none; an included sub-record has
\* price 0.0.
C8_FreePassOnlyIfZero ==
    tpc = "done" =>
        \A k \in 1..Len(conventionalTrips) :
            LET r       == conventionalTrips[k]
                entries == EntriesOf(SourceTrip(r))
                free    == {j \in 1..Len(entries) : entries[j].type = "free_pass"}
            IN  /\ r.freePassInfo # NULL =>
                      /\ \E j \in free : parseFloat(entries[j], "total") = Zero
                      /\ r.freePassInfo.price = Zero
                /\ (\A j \in free : parseFloat(entries[j], "total") # Zero)
                      => r.freePassInfo = NULL

\* a trip with a paid free_pass entry followed by a zero one: the sub-record
\* is that of the second entry
C8_Witness ==
    /\ tpc = "done"
    /\ \E k \in 1..Len(conventionalTrips) :
          LET r       == conventionalTrips[k]
              entries == EntriesOf(SourceTrip(r))
          IN  /\ Len(entries) = 2
              /\ entries[1].type = "free_pass" /\ entries[2].type = "free_pass"
              /\ parseFloat(entries[1], "total") = [m |-> 125, e |-> 1]
              /\ parseFloat(entries[2], "total") = Zero
              /\ r.freePassInfo # NULL
              /\ r.freePassInfo.availability = 2

\* C9, as claimed: each of the three discount sub-records is present if and
\* only if the source trip has an entry of the corresponding type.
C9_SubRecordIffEntry ==
    tpc = "done" =>
        \A k \in 1..Len(conventionalTrips) :
            LET r == conventionalTrips[k]
                t == SourceTrip(r)
            IN  /\ r.freePassInfo # NULL <=> HasEntryOfType(t, "free_pass")
                /\ r.disadvantagedYouthInfo # NULL
                      <=> HasEntryOfType(t, "disadvantaged_youth")
                /\ r.disadvantagedYouthHalfInfo # NULL
                      <=> HasEntryOfType(t, "disadvantaged_youth_half")

\* C9, amended: the two youth sub-records are present if and only if the
\* source trip has an entry of their type; the free-pass sub-record is
\* present if and only if the source trip has a free_pass entry whose total
\* parses to 0.0.
C9_SubRecordIffEntryZeroFreePass ==
    tpc = "done" =>
        \A k \in 1..Len(conventionalTrips) :
            LET r       == conventionalTrips[k]
                t       == SourceTrip(r)
                entries == EntriesOf(t)
            IN  /\ r.freePassInfo # NULL <=>
                      \E j \in 1..Len(entries) :
                          /\ entries[j].type = "free_pass"
                          /\ parseFloat(entries[j], "total") = Zero
                /\ r.disadvantagedYouthInfo # NULL
                      <=> HasEntryOfType(t, "disadvantaged_youth")
                /\ r.disadvantagedYouthHalfInfo # NULL
                      <=> HasEntryOfType(t, "disadvantaged_youth_half")

\* a trip with a paid free_pass entry and a paid half-fare youth entry: the
\* half-fare sub-record alone is present
C9_Witness ==
    /\ tpc = "done"
    /\ \E k \in 1..Len(conventionalTrips) :
          LET r == conventionalTrips[k]
              t == SourceTrip(r)
          IN  /\ HasEntryOfType(t, "free_pass")
              /\ HasEntryOfType(t, "disadvantaged_youth_half")
              /\ r.freePassInfo = NULL
              /\ r.disadvantagedYouthInfo = NULL
              /\ r.disadvantagedYouthHalfInfo # NULL
              /\ r.disadvantagedYouthHalfInfo.price # Zero

\* the first "general" entry of a trip: its position, or 0
FirstGeneral(trip) ==
    LET entries == EntriesOf(trip)
        G       == {j \in 1..Len(entries) : entries[j].type = "general"}
    IN  IF G = {} THEN 0 ELSE CHOOSE j \in G : \A g \in G : j <= g

\* C10, as claimed: the price is the numeric value of the total of the
\* trip's "general" entry when there is one, and pricing.total otherwise.
C10_PriceFromGeneralEntry ==
    tpc = "done" =>
        \A k \in 1..Len(conventionalTrips) :
            LET r == conventionalTrips[k]
                t == SourceTrip(r)
                g == FirstGeneral(t)
            IN  r.price = IF g # 0 THEN parseFloat(EntriesOf(t)[g], "total")
                          ELSE Num(t.pricing.total)

\* C10, amended: the price is the numeric value of the total of the trip's
\* first "general" entry when there is one and it has a total, and
\* pricing.total otherwise.
C10_PriceFromGeneralTotal ==
    tpc = "done" =>
        \A k \in 1..Len(conventionalTrips) :
            LET r == conventionalTrips[k]
                t == SourceTrip(r)
                g == FirstGeneral(t)
            IN  r.price = IF g # 0 /\ "total" \in DOMAIN EntriesOf(t)[g]
                          THEN parseFloat(EntriesOf(t)[g], "total")
                          ELSE Num(t.pricing.total)

\* pricing.total is 80 and the general entry says "12.50": the price is 12.5
C10_Witness ==
    /\ tpc = "done"
    /\ \E k \in 1..Len(conventionalTrips) :
          LET r == conventionalTrips[k]
              t == SourceTrip(r)
          IN  /\ FirstGeneral(t) # 0
              /\ "total" \in DOMAIN EntriesOf(t)[FirstGeneral(t)]
              /\ EntriesOf(t)[FirstGeneral(t)].total = <<"1", "2", ".", "5", "0">>
              /\ t.pricing.total = 80
              /\ r.price = [m |-> 125, e |-> 1]
              /\ r.freePassInfo = NULL
              /\ r.disadvantagedYouthInfo = NULL
              /\ r.disadvantagedYouthHalfInfo = NULL


\* C12: for every payload that is missing (null, undefined), is no object,
\* or has no trips property holding an array, processAndFilterTrips completes
\* by returning, and what it returns is the empty list.
C12_MalformedPayloadEmpty ==
    (tpc \notin {"idle", "build"} /\ jsonData \in MalformedPayloads) =>
        /\ tpc = "done"
        /\ conventionalTrips = <<>>

\* an object whose trips property is a non-empty string
C12_Witness ==
    /\ tpc = "done" /\ conventionalTrips = <<>>
    /\ typeOf(jsonData) = "object" /\ truthy(jsonData)
    /\ truthy(tripsOf(jsonData)) /\ typeOf(tripsOf(jsonData)) = "string"

(***************************************************************************)
(* Properties of the prompt and of main's reports (Spec).                  *)
(***************************************************************************)
\* the prompt has been answered
Answered == mpc \notin {"start", "prompt"}

\* C13: once the prompt is answered with a line that is no number, or with
\* a number outside 0..(number of routes), the prompt has failed with an
\* error that main reported, no fetch was attempted and main has logged its
\* final line; once it is answered with 0, nothing is selected, no error is
\* reported and main has logged its final line.
C13_InvalidAnswerReported ==
    Answered =>
        LET choice == parseInt(answer)
            valid  == ~isNaN(choice) /\ choice.m >= 0
                      /\ choice.m <= Len(tripSelections)
        IN  /\ ~valid => /\ logged = "promptError"
                         /\ fetchLog = <<>>
                         /\ mpc = "done"
            /\ (valid /\ choice.m = 0) => /\ selectedTrip = 0
                                          /\ logged = "noSelection"
                                          /\ mpc = "done"

\* C14: in a run where the answer is 0, or is the number of a route whose
\* date list is empty, no fetch is attempted and no browser is launched;
\* main has reported the condition (nothing selected, or no dates for the
\* route) and logged its final line.
C14_NoFetchWithoutDates ==
    (Answered /\ ~isNaN(parseInt(answer))) =>
        LET choice == parseInt(answer).m
            route  == choice >= 1 /\ choice <= Len(tripSelections)
        IN  /\ choice = 0 => /\ fetchLog = <<>>
                             /\ \A i \in Calls : session[i] = "absent"
                             /\ logged = "noSelection"
                             /\ mpc = "done"
            /\ (route /\ tripSelections[choice].dates = <<>>) =>
                   /\ fetchLog = <<>>
                   /\ \A i \in Calls : session[i] = "absent"
                   /\ logged = "noDates"
                   /\ mpc = "done"

\* the run is over after the route whose name has no group was selected
C14_Witness ==
    /\ proc = "exited" /\ mpc = "done"
    /\ tripOptions = tripOptionsEdited
    /\ answer = <<"3">> /\ selectedTrip = 3
    /\ tripSelections[3].dates = <<>>
    /\ fetchLog = <<>> /\ logged = "noDates"

\* C15: the step in which the awaited browser.close() settles, by success
\* or by failure, leaves the completion of the call as the try and catch
\* blocks set it, and that completion is a return: the value returned is the
\* same whether the close succeeds or throws, and a close failure is not
\* raised to the caller.
C15_CloseFailureKeepsOutcome ==
    [][(fpc = "closing" /\ fpc' = "exit") =>
           /\ completion' = completion
           /\ completion'.kind = "return"]_vars

\* a call returns the captured payload although its close threw
C15_Witness ==
    /\ fpc = "exit" /\ closeError
    /\ completion.kind = "return" /\ completion.val # NULL
    /\ completion.val.payload = capturedJsonData[cur]

\* the call is about to return a payload
ReturnsPayload ==
    fpc = "exit" /\ completion.kind = "return" /\ completion.val # NULL

\* C16, as claimed: the payload returned is that of the first response
\* observed that has a matching URL and a body with a trips array, whatever
\* the order in which the bodies were decoded.
C16_FirstObservedWins ==
    ReturnsPayload => completion.val.payload = firstMatch.observed

\* a response event or a decoding that does not end in a capture: a response
\* is observed, or a body that is no JSON or has no trips array is decoded
NonCapturingStep ==
    \/ nresp' = nresp + 1
    \/ /\ session' = session
       /\ \E r \in decoding : r.body # "trips" /\ decoding' = decoding \ {r}

\* C16, amended: the payload returned is that of the matching response
\* whose body was decoded first, for every interleaving of response events
\* and decodings; observing a response, a decoding failure and a decoded
\* body without a trips array leave the capture promise, the timer and the
\* course of the call as they are.
C16_FirstDecodedWins ==
    /\ [](ReturnsPayload => completion.val.payload = firstMatch.decoded)
    /\ [][NonCapturingStep =>
              /\ promise' = promise /\ timer' = timer
              /\ capturedJsonData' = capturedJsonData
              /\ fpc' = fpc /\ completion' = completion]_vars

\* two matching responses were observed, the second was decoded first, and
\* its payload is returned
C16_Witness ==
    /\ ReturnsPayload
    /\ firstMatch.observed = 1 /\ firstMatch.decoded = 2
    /\ completion.val.payload = 2

\* C17: every call that is started eventually returns; a call whose timer
\* fired with nothing captured returns null; and a call returns a payload
\* only if the capture resolved its promise and cleared the timer before it
\* could fire.
C17_EveryCallReturns ==
    /\ \A i \in Calls : (cur = i /\ fpc = "launch") ~> (cur = i /\ fpc = "exit")
    /\ []((fpc = "exit" /\ timer[cur] = "fired" /\ promise[cur].st = "rejected")
              => completion = [kind |-> "return", val |-> NULL])
    /\ [](ReturnsPayload =>
              /\ timer[cur] = "cleared"
              /\ promise[cur].st = "resolved"
              /\ capturedJsonData[cur] # 0)

\* the call is about to return after the capture timer rejected the promise
\* it was awaiting
FailedByTimeout ==
    /\ fpc = "exit" /\ timer[cur] = "fired" /\ promise[cur].st = "rejected"
    /\ \A u \in unhandled : u.call # cur

\* C18: when a call fails by capture timeout, a line logged for its date
\* names the date, the origin and the destination, and what is logged is not
\* what is logged for a call that fails by a navigation error.
C18_TimeoutLogNamesRoute ==
    FailedByTimeout =>
        /\ \E k \in 1..Len(fetchConsole) :
              /\ {"date", "origin", "destination"} \subseteq DOMAIN fetchConsole[k]
              /\ fetchConsole[k].date = fetchLog[cur]
              /\ fetchConsole[k].origin = tripSelections[selectedTrip].origin
              /\ fetchConsole[k].destination = tripSelections[selectedTrip].destination
        /\ fetchConsole # <<catchLine(navigationError, fetchLog[cur])>>

\* the call is about to return and its navigation had succeeded: it went on
\* to await the capture promise
NavigatedAtExit == ReturnsPayload \/ FailedByTimeout

\* C19: a call whose navigation succeeded and for whose date the target API
\* answered with a JSON body that has no trips array, and with no body that
\* has one, does not return null: the date is not a fetch failure, and main
\* goes on to normalize and present its (empty) trip list.
C19_MalformedNotAFailure ==
    (NavigatedAtExit /\ firstMatch.malformed /\ firstMatch.observed = 0) =>
        /\ completion.kind = "return"
        /\ completion.val # NULL

(***************************************************************************)
(* Properties of getDayOfWeekFromString and of main's schedules            *)
(* (SpecNames).  The trailing parenthesised group of a name is its longest *)
(* suffix that opens with "(", closes with ")" and has text, free of ")",  *)
(* in between; its token is that text.                                     *)
(***************************************************************************)
IsGroup(s) ==
    /\ Len(s) >= 3
    /\ s[1] = "(" /\ s[Len(s)] = ")"
    /\ \A j \in 2..(Len(s) - 1) : s[j] # ")"

Suffix(name, i) == SubSeq(name, i, Len(name))

\* where the trailing group of the name starts, or 0 when it has none
TrailingGroupStart(name) ==
    LET G == {i \in 1..Len(name) : IsGroup(Suffix(name, i))}
    IN  IF G = {} THEN 0 ELSE CHOOSE i \in G : \A k \in G : i <= k

\* the label the claim expects for a name
ExpectedLabel(name) ==
    LET g     == TrailingGroupStart(name)
        token == SubSeq(name, g + 1, Len(name) - 1)
    IN  IF g # 0 /\ Len(token) = 1 /\ token[1] \in DOMAIN dayNameMapping
        THEN token[1]
        ELSE NoDay

====
